---- MODULE Spec2Model ----
(***************************************************************************)
(* A model of Queryable<T> (src/src/queryable/queryable.ts): a wrapper     *)
(* that stores a reference to a JavaScript array and offers LINQ-style     *)
(* operators over it.  Arrays live in a heap and are named by references,  *)
(* so that copying ([...a]), in-place built-ins (sort, reverse) and        *)
(* aliasing are what the code makes them.  The ECMAScript built-ins the    *)
(* class calls are modelled by what the language defines them to do.       *)
(***************************************************************************)
EXTENDS Integers, Sequences, FiniteSets, TLC

\* Longest array handed to the constructor.
MaxLen == 2

(***************************************************************************)
(* JavaScript values.                                                      *)
(***************************************************************************)
Undefined == [t |-> "undefined"]
Null == [t |-> "null"]
\* A number is a reduced fraction num/den; den = 0 is +/-Infinity.
Num(n) == [t |-> "number", nan |-> FALSE, num |-> n, den |-> 1]
NaN == [t |-> "number", nan |-> TRUE, num |-> 0, den |-> 1]
Str(s) == [t |-> "string", s |-> s]
\* An object of the shape the tests use; two objects are the same object
\* exactly when they are the same record (id tells the objects apart).
Person(id, name, age) == [t |-> "object", id |-> id, name |-> name, age |-> age]

Alice == Person(1, "Alice", 30)
Ctor == Person(2, "constructor", 25)
Alice25 == Person(3, "Alice", 25)
\* The default object of the firstOrDefault / lastOrDefault tests.
Jack == Person(5, "Jack", 60)

\* What the elements of a source array are drawn from.
Elements == {Undefined, Alice, Ctor, Alice25}

SeqsUpTo(S, n) == UNION {[1..m -> S] : m \in 0..n}

Max(a, b) == IF a >= b THEN a ELSE b
Min(a, b) == IF a <= b THEN a ELSE b

(***************************************************************************)
(* The callbacks handed to the operators: named lambdas, none of which     *)
(* throws on any value.                                                    *)
(*   "self"  x => x                                                        *)
(*   "age"   x => x?.age ?? 28                                             *)
(*   "id"    x => x?.id ?? 0                                               *)
(*   "name"  x => x?.name ?? ""                                            *)
(***************************************************************************)
Selector(selector, item) ==
    CASE selector = "self" -> item
      [] selector = "age" -> IF item.t = "object" THEN Num(item.age) ELSE Num(28)
      [] selector = "id" -> IF item.t = "object" THEN Num(item.id) ELSE Num(0)
      [] selector = "name" -> IF item.t = "object" THEN Str(item.name) ELSE Str("")

(***************************************************************************)
(*   "true"       x => true                                                *)
(*   "ageOver25"  x => x?.age > 25                                         *)
(*   "idIs5"      x => x?.id === 5                                         *)
(*   "isAlice"    x => x?.name === "Alice"                                 *)
(***************************************************************************)
Predicate(predicate, item) ==
    CASE predicate = "true" -> TRUE
      [] predicate = "ageOver25" -> item.t = "object" /\ item.age > 25
      [] predicate = "idIs5" -> item.t = "object" /\ item.id = 5
      [] predicate = "isAlice" -> item.t = "object" /\ item.name = "Alice"

Selectors == {"self", "age", "name"}
KeySelectors == {"age", "name"}
NumberSelectors == {"age", "id"}
Predicates == {"true", "ageOver25", "idIs5", "isAlice"}
\* An optional argument that was left out.
Omitted == "omitted"
Defaults == {Null, Jack}
Counts == (0 - MaxLen - 1) .. (MaxLen + 1)

(***************************************************************************)
(* ECMAScript operators on values.                                         *)
(***************************************************************************)
\* Code-unit order of the strings that occur as keys.
StringRank(s) ==
    CASE s = "" -> 0
      [] s = "Alice" -> 1
      [] s = "Jack" -> 2
      [] s = "constructor" -> 3

\* ToNumber, as far as the relational operators need it.
ToNumber(v) ==
    CASE v.t = "number" -> v
      [] v.t = "null" -> Num(0)
      [] v.t = "string" -> IF v.s = "" THEN Num(0) ELSE NaN
      [] OTHER -> NaN

NumLess(x, y) == ~x.nan /\ ~y.nan /\ x.num * y.den < y.num * x.den

\* a < b
Less(a, b) ==
    IF a.t = "string" /\ b.t = "string"
    THEN StringRank(a.s) < StringRank(b.s)
    ELSE NumLess(ToNumber(a), ToNumber(b))

\* a > b
Greater(a, b) == Less(b, a)

\* a + b on numbers that are integers.
Add(a, b) == IF a.nan \/ b.nan THEN NaN ELSE Num(a.num + b.num)

RECURSIVE Gcd(_, _)
Gcd(a, b) == IF b = 0 THEN a ELSE Gcd(b, a % b)

Abs(n) == IF n < 0 THEN 0 - n ELSE n

\* a / b on integers a and b >= 0: 0/0 is NaN, x/0 an infinity.
Divide(a, b) ==
    IF a.nan \/ b.nan \/ (a.num = 0 /\ b.num = 0) THEN NaN
    ELSE IF b.num = 0
         THEN [t |-> "number", nan |-> FALSE, num |-> IF a.num < 0 THEN 0 - 1 ELSE 1, den |-> 0]
         ELSE LET g == Gcd(Abs(a.num), b.num)
              IN [t |-> "number", nan |-> FALSE, num |-> a.num \div g, den |-> b.num \div g]

\* ToPropertyKey: a number used as a property name becomes its decimal string.
ToPropertyKey(key) == IF key.t = "number" THEN ToString(key.num) ELSE key.s

(***************************************************************************)
(* Array built-ins, on the items of an array.                              *)
(***************************************************************************)
\* Array.prototype.map
ArrayMap(items, selector) == [i \in 1..Len(items) |-> Selector(selector, items[i])]

\* Array.prototype.filter
RECURSIVE ArrayFilter(_, _)
ArrayFilter(items, predicate) ==
    IF items = << >> THEN << >>
    ELSE LET rest == ArrayFilter(Tail(items), predicate)
         IN IF Predicate(predicate, Head(items)) THEN <<Head(items)>> \o rest ELSE rest

\* Array.prototype.slice(start, end): negative arguments count from the end.
ArraySlice(items, start, end) ==
    LET len == Len(items)
        k == IF start < 0 THEN Max(len + start, 0) ELSE Min(start, len)
        final == IF end < 0 THEN Max(len + end, 0) ELSE Min(end, len)
    IN SubSeq(items, k + 1, final)

\* Array.prototype.find: the first element the predicate accepts, or undefined.
RECURSIVE ArrayFind(_, _)
ArrayFind(items, predicate) ==
    IF items = << >> THEN Undefined
    ELSE IF Predicate(predicate, Head(items)) THEN Head(items)
         ELSE ArrayFind(Tail(items), predicate)

\* Array.prototype.some / every
ArraySome(items, predicate) == \E i \in 1..Len(items) : Predicate(predicate, items[i])
ArrayEvery(items, predicate) == \A i \in 1..Len(items) : Predicate(predicate, items[i])

\* Array.prototype.reverse, on the items.
ArrayReverse(items) == [i \in 1..Len(items) |-> items[Len(items) + 1 - i]]

\* One insertion of a stable insertion sort: x goes after every element that
\* does not compare greater than it.
RECURSIVE SortInsert(_, _, _)
SortInsert(sorted, x, comparefn) ==
    IF sorted = << >> THEN <<x>>
    ELSE LET last == sorted[Len(sorted)]
         IN IF comparefn[<<last, x>>] > 0
            THEN SortInsert(SubSeq(sorted, 1, Len(sorted) - 1), x, comparefn) \o <<last>>
            ELSE sorted \o <<x>>

RECURSIVE SortDefined(_, _)
SortDefined(items, comparefn) ==
    IF items = << >> THEN << >>
    ELSE SortInsert(SortDefined(SubSeq(items, 1, Len(items) - 1), comparefn),
                    items[Len(items)], comparefn)

IsDefined(v) == v # Undefined

\* Array.prototype.sort(comparefn): stable; undefined elements are moved to
\* the end without being handed to comparefn.
ArraySort(items, comparefn) ==
    LET defined == SelectSeq(items, IsDefined)
    IN SortDefined(defined, comparefn)
         \o [i \in 1..(Len(items) - Len(defined)) |-> Undefined]

(***************************************************************************)
(* The heap of arrays.                                                     *)
(***************************************************************************)
\* The smallest reference not in use.
NewRef(h) == CHOOSE r \in 1..(Cardinality(DOMAIN h) + 1) :
                 /\ r \notin DOMAIN h
                 /\ \A s \in 1..(Cardinality(DOMAIN h) + 1) : s \notin DOMAIN h => r <= s

\* A new array holding items.
Alloc(h, items) == LET r == NewRef(h) IN [heap |-> (r :> items) @@ h, ref |-> r]

\* Spread without the copy: the array itself.
SpreadAlias(h, r) == [heap |-> h, ref |-> r]

\* [...a]: a new array with the items of the array at r.
Spread(h, r) == Alloc(h, h[r])

\* a[index], 0-based; undefined outside the array.
ArrayGet(items, index) ==
    IF index \in 0..(Len(items) - 1) THEN items[index + 1] ELSE Undefined

\* a.sort(comparefn) and a.reverse() work in place and return the array itself.
SortInPlace(h, r, comparefn) == [heap |-> [h EXCEPT ![r] = ArraySort(h[r], comparefn)], ref |-> r]
ReverseInPlace(h, r) == [heap |-> [h EXCEPT ![r] = ArrayReverse(h[r])], ref |-> r]

(***************************************************************************)
(* class Queryable<T>.  A method is an operator of the heap, the receiver  *)
(* and the arguments, and yields the heap it leaves and what it returns.   *)
(***************************************************************************)
\* constructor(collection): keeps the reference it is given.
Queryable(collection) == [t |-> "Queryable", collection |-> collection]

Return(h, value) == [heap |-> h, ret |-> value]
Boolean(b) == [t |-> "boolean", b |-> b]
TypeError == [t |-> "throw", error |-> "TypeError"]

select(h, this, selector) ==
    LET mapped == Alloc(h, ArrayMap(h[this.collection], selector))
    IN Return(mapped.heap, Queryable(mapped.ref))

\* where that never looks at the last element.
whereSkipsLast(h, this, predicate) ==
    LET items == h[this.collection]
        filtered == Alloc(h, ArrayFilter(SubSeq(items, 1, Len(items) - 1), predicate))
    IN Return(filtered.heap, Queryable(filtered.ref))

where(h, this, predicate) ==
    LET filtered == Alloc(h, ArrayFilter(h[this.collection], predicate))
    IN Return(filtered.heap, Queryable(filtered.ref))

Range(items) == {items[i] : i \in 1..Len(items)}

\* The comparator of orderBy, over the values of the array being sorted.
orderByCompare(keySelector, a, b) ==
    LET keyA == Selector(keySelector, a)
        keyB == Selector(keySelector, b)
    IN IF Less(keyA, keyB) THEN 0 - 1 ELSE IF Greater(keyA, keyB) THEN 1 ELSE 0

orderBy(h, this, keySelector) ==
    LET copy == Spread(h, this.collection)
        S == Range(copy.heap[copy.ref])
        sorted == SortInPlace(copy.heap, copy.ref,
                              [p \in S \X S |-> orderByCompare(keySelector, p[1], p[2])])
    IN Return(sorted.heap, Queryable(sorted.ref))

\* The comparator of orderByDescending.
orderByDescendingCompare(keySelector, a, b) ==
    LET keyA == Selector(keySelector, a)
        keyB == Selector(keySelector, b)
    IN IF Greater(keyA, keyB) THEN 0 - 1 ELSE IF Less(keyA, keyB) THEN 1 ELSE 0

orderByDescending(h, this, keySelector) ==
    LET copy == Spread(h, this.collection)
        S == Range(copy.heap[copy.ref])
        sorted == SortInPlace(copy.heap, copy.ref,
                              [p \in S \X S |-> orderByDescendingCompare(keySelector, p[1], p[2])])
    IN Return(sorted.heap, Queryable(sorted.ref))

\* The properties every object inherits from Object.prototype: read through
\* the {} that groupBy starts from, each is a value that is truthy and is no
\* array (it has no push).
ObjectPrototypeProperties ==
    {"constructor", "__proto__", "hasOwnProperty", "isPrototypeOf",
     "propertyIsEnumerable", "toLocaleString", "toString", "valueOf",
     "__defineGetter__", "__defineSetter__", "__lookupGetter__", "__lookupSetter__"}

\* One step of groupBy's reducer.  groups is the accumulator's own
\* properties (property name -> items of the group's array), or the
\* TypeError a previous step threw.
groupByStep(groups, item, keySelector) ==
    IF groups = TypeError THEN TypeError
    ELSE LET key == ToPropertyKey(Selector(keySelector, item))
         IN IF key \in DOMAIN groups.own
            THEN [groups EXCEPT !.own[key] = Append(@, item)]
            ELSE IF key \in ObjectPrototypeProperties
                 THEN TypeError
                 ELSE [groups EXCEPT !.own = (key :> <<item>>) @@ @]

RECURSIVE groupByReduce(_, _, _)
groupByReduce(groups, items, keySelector) ==
    IF items = << >> THEN groups
    ELSE groupByReduce(groupByStep(groups, Head(items), keySelector), Tail(items), keySelector)

groupBy(h, this, keySelector) ==
    Return(h, groupByReduce([t |-> "groups", own |-> << >>], h[this.collection], keySelector))

\* The forEach of distinct: uniqueKeys is the Set, distinctItems the array.
RECURSIVE distinctForEach(_, _, _, _)
distinctForEach(items, keySelector, uniqueKeys, distinctItems) ==
    IF items = << >> THEN distinctItems
    ELSE LET item == Head(items)
             key == IF keySelector # "omitted" THEN Selector(keySelector, item) ELSE item
         IN IF key \notin uniqueKeys
            THEN distinctForEach(Tail(items), keySelector, uniqueKeys \cup {key},
                                 Append(distinctItems, item))
            ELSE distinctForEach(Tail(items), keySelector, uniqueKeys, distinctItems)

\* distinct that takes the element for the key whatever keySelector is.
distinctIgnoresKeySelector(h, this, keySelector) ==
    LET distinctItems == Alloc(h, distinctForEach(h[this.collection], "omitted", {}, << >>))
    IN Return(distinctItems.heap, Queryable(distinctItems.ref))

distinct(h, this, keySelector) ==
    LET distinctItems == Alloc(h, distinctForEach(h[this.collection], keySelector, {}, << >>))
    IN Return(distinctItems.heap, Queryable(distinctItems.ref))

\* take that fills up with undefined when count is beyond the length.
takePads(h, this, count) ==
    LET padded == Alloc(h, [i \in 1..Max(count, 0) |-> ArrayGet(h[this.collection], i - 1)])
    IN Return(padded.heap, Queryable(padded.ref))

take(h, this, count) ==
    LET sliced == Alloc(h, ArraySlice(h[this.collection], 0, count))
    IN Return(sliced.heap, Queryable(sliced.ref))

\* A skip that hands back a wrapper over the array it was called on when
\* there is nothing to skip.
skipNothingKeepsArray(h, this, count) ==
    IF count = 0
    THEN Return(h, Queryable(this.collection))
    ELSE LET sliced == Alloc(h, ArraySlice(h[this.collection], count, Len(h[this.collection])))
         IN Return(sliced.heap, Queryable(sliced.ref))

\* slice(count): the end that is left out is the length.
skip(h, this, count) ==
    LET sliced == Alloc(h, ArraySlice(h[this.collection], count, Len(h[this.collection])))
    IN Return(sliced.heap, Queryable(sliced.ref))

\* A toArray that returns a copy, [...this.collection].
toArrayCopies(h, this) ==
    LET copy == Spread(h, this.collection)
    IN Return(copy.heap, [t |-> "array", ref |-> copy.ref])

toArray(h, this) == Return(h, [t |-> "array", ref |-> this.collection])

RECURSIVE sumReduce(_, _, _)
sumReduce(acc, items, selector) ==
    IF items = << >> THEN acc
    ELSE sumReduce(Add(acc, Selector(selector, Head(items))), Tail(items), selector)

sum(h, this, selector) == Return(h, sumReduce(Num(0), h[this.collection], selector))

\* average that answers 0 for an empty collection.
averageZeroWhenEmpty(h, this, selector) ==
    LET total == sum(h, this, selector).ret
    IN Return(h, IF h[this.collection] = << >> THEN Num(0)
                 ELSE Divide(total, Num(Len(h[this.collection]))))

average(h, this, selector) ==
    LET total == sum(h, this, selector).ret
    IN Return(h, Divide(total, Num(Len(h[this.collection]))))

any(h, this, predicate) == Return(h, Boolean(ArraySome(h[this.collection], predicate)))

all(h, this, predicate) == Return(h, Boolean(ArrayEvery(h[this.collection], predicate)))

first(h, this, predicate) ==
    IF predicate # "omitted"
    THEN Return(h, ArrayFind(h[this.collection], predicate))
    ELSE Return(h, ArrayGet(h[this.collection], 0))

firstOrDefault(h, this, predicate, defaultValue) ==
    LET item == IF predicate # "omitted"
                THEN ArrayFind(h[this.collection], predicate)
                ELSE ArrayGet(h[this.collection], 0)
    IN Return(h, IF item # Undefined THEN item ELSE defaultValue)

last(h, this, predicate) ==
    IF predicate # "omitted"
    THEN LET copy == Spread(h, this.collection)
             reversed == ReverseInPlace(copy.heap, copy.ref)
         IN Return(reversed.heap, ArrayFind(reversed.heap[reversed.ref], predicate))
    ELSE Return(h, ArrayGet(h[this.collection], Len(h[this.collection]) - 1))

lastOrDefault(h, this, predicate, defaultValue) ==
    LET copy == Spread(h, this.collection)
        reversed == ReverseInPlace(copy.heap, copy.ref)
        item == IF predicate # "omitted"
                THEN ArrayFind(reversed.heap[reversed.ref], predicate)
                ELSE ArrayGet(h[this.collection], Len(h[this.collection]) - 1)
    IN Return(IF predicate # "omitted" THEN reversed.heap ELSE h,
              IF item # Undefined THEN item ELSE defaultValue)

(***************************************************************************)
(* The program: an array `data`, `q = new Queryable(data)`, and a caller   *)
(* that calls a method on q or on the wrapper it chained to, and then      *)
(* either chains to the wrapper the call returned or drops what it got.    *)
(***************************************************************************)
VARIABLES
    heap,       \* reference -> items of the array it names
    queryable,  \* <<q>>, or <<q, the wrapper the caller chained to>>
    pc,         \* "ready": the caller may call; "returned": a call has returned
    call        \* the call that returned: method, receiver, arguments, result

vars == <<heap, queryable, pc, call>>

NoArgs == [selector |-> "omitted", predicate |-> "omitted", count |-> 0, defaultValue |-> Null]
NoCall == [op |-> "none", this |-> Queryable(1), in |-> << >>, args |-> NoArgs, ret |-> Undefined]

Init ==
    /\ \E data \in SeqsUpTo(Elements, MaxLen) : heap = (1 :> data)
    /\ queryable = <<Queryable(1)>>
    /\ pc = "ready"
    /\ call = NoCall

\* The arrays the wrappers qs refer to; anything else of h is garbage.
Reachable(h, qs) == [r \in {qs[q].collection : q \in DOMAIN qs} |-> h[r]]

\* The method op is called on the wrapper `this` and runs as `result` says.
Call(op, this, args, result) ==
    /\ pc = "ready"
    /\ pc' = "returned"
    /\ heap' = result.heap
    /\ call' = [op |-> op, this |-> this, in |-> heap[this.collection],
                args |-> args, ret |-> result.ret]
    /\ UNCHANGED queryable

Receivers == {queryable[q] : q \in DOMAIN queryable}

\* The caller goes on with the wrapper the call returned.
Chain ==
    /\ pc = "returned"
    /\ call.ret.t = "Queryable"
    /\ queryable' = <<queryable[1], call.ret>>
    /\ heap' = Reachable(heap, queryable')
    /\ pc' = "ready"
    /\ call' = NoCall

\* The caller lets go of what the call returned.
Drop ==
    /\ pc = "returned"
    /\ heap' = Reachable(heap, queryable)
    /\ pc' = "ready"
    /\ call' = NoCall
    /\ UNCHANGED queryable

CallSelect ==
    \E this \in Receivers, selector \in Selectors :
        Call("select", this, [NoArgs EXCEPT !.selector = selector],
             select(heap, this, selector))

CallWhere ==
    \E this \in Receivers, predicate \in Predicates :
        Call("where", this, [NoArgs EXCEPT !.predicate = predicate],
             where(heap, this, predicate))

CallOrderBy ==
    \E this \in Receivers, keySelector \in KeySelectors :
        Call("orderBy", this, [NoArgs EXCEPT !.selector = keySelector],
             orderBy(heap, this, keySelector))

CallOrderByDescending ==
    \E this \in Receivers, keySelector \in KeySelectors :
        Call("orderByDescending", this, [NoArgs EXCEPT !.selector = keySelector],
             orderByDescending(heap, this, keySelector))

CallGroupBy ==
    \E this \in Receivers, keySelector \in KeySelectors :
        Call("groupBy", this, [NoArgs EXCEPT !.selector = keySelector],
             groupBy(heap, this, keySelector))

CallDistinct ==
    \E this \in Receivers, keySelector \in KeySelectors \cup {Omitted} :
        Call("distinct", this, [NoArgs EXCEPT !.selector = keySelector],
             distinct(heap, this, keySelector))

CallTake ==
    \E this \in Receivers, count \in Counts :
        Call("take", this, [NoArgs EXCEPT !.count = count], take(heap, this, count))

CallSkip ==
    \E this \in Receivers, count \in Counts :
        Call("skip", this, [NoArgs EXCEPT !.count = count], skip(heap, this, count))

CallToArray ==
    \E this \in Receivers : Call("toArray", this, NoArgs, toArray(heap, this))

CallSum ==
    \E this \in Receivers, selector \in NumberSelectors :
        Call("sum", this, [NoArgs EXCEPT !.selector = selector],
             sum(heap, this, selector))

CallAverage ==
    \E this \in Receivers, selector \in NumberSelectors :
        Call("average", this, [NoArgs EXCEPT !.selector = selector],
             average(heap, this, selector))

CallAny ==
    \E this \in Receivers, predicate \in Predicates :
        Call("any", this, [NoArgs EXCEPT !.predicate = predicate],
             any(heap, this, predicate))

CallAll ==
    \E this \in Receivers, predicate \in Predicates :
        Call("all", this, [NoArgs EXCEPT !.predicate = predicate],
             all(heap, this, predicate))

CallFirst ==
    \E this \in Receivers, predicate \in Predicates \cup {Omitted} :
        Call("first", this, [NoArgs EXCEPT !.predicate = predicate],
             first(heap, this, predicate))

CallFirstOrDefault ==
    \E this \in Receivers, predicate \in Predicates \cup {Omitted}, defaultValue \in Defaults :
        Call("firstOrDefault", this,
             [NoArgs EXCEPT !.predicate = predicate, !.defaultValue = defaultValue],
             firstOrDefault(heap, this, predicate, defaultValue))

CallLast ==
    \E this \in Receivers, predicate \in Predicates \cup {Omitted} :
        Call("last", this, [NoArgs EXCEPT !.predicate = predicate],
             last(heap, this, predicate))

CallLastOrDefault ==
    \E this \in Receivers, predicate \in Predicates \cup {Omitted}, defaultValue \in Defaults :
        Call("lastOrDefault", this,
             [NoArgs EXCEPT !.predicate = predicate, !.defaultValue = defaultValue],
             lastOrDefault(heap, this, predicate, defaultValue))

Next ==
    \/ CallSelect
    \/ CallWhere
    \/ CallOrderBy
    \/ CallOrderByDescending
    \/ CallGroupBy
    \/ CallDistinct
    \/ CallTake
    \/ CallSkip
    \/ CallToArray
    \/ CallSum
    \/ CallAverage
    \/ CallAny
    \/ CallAll
    \/ CallFirst
    \/ CallFirstOrDefault
    \/ CallLast
    \/ CallLastOrDefault
    \/ Chain
    \/ Drop

Spec == Init /\ [][Next]_vars

(***************************************************************************)
(* The caller may also change, in place, an array it holds: `data`, which  *)
(* it handed to the constructor, or the array toArray() returned to it.    *)
(***************************************************************************)
\* The array `data` of `new Queryable(data)`.
DataRef == 1

\* What the in-place change a[0] = jack makes of an array that has elements.
InPlaceChanges(items) ==
    IF items # << >> THEN {[items EXCEPT ![1] = Jack]} ELSE {}

\* The caller changes the array at r; it does so once, while no array holds
\* jack yet.
Change(r) ==
    /\ \A a \in DOMAIN heap : Jack \notin Range(heap[a])
    /\ \E items \in InPlaceChanges(heap[r]) :
          heap' = [heap EXCEPT ![r] = items]
    /\ UNCHANGED <<queryable, pc, call>>

\* data[0] = jack
ChangeData ==
    /\ pc = "ready"
    /\ Change(DataRef)

\* const a = w.toArray(); a[0] = jack
ChangeArray ==
    /\ pc = "returned"
    /\ call.op = "toArray"
    /\ Change(call.ret.ref)

\* Runs with in-place changes: the caller calls the operators that return a
\* wrapper, toArray, and of the methods that only read this.collection,
\* first and sum.
NextWithChanges ==
    \/ CallSelect
    \/ CallWhere
    \/ CallOrderBy
    \/ CallOrderByDescending
    \/ CallDistinct
    \/ CallTake
    \/ CallSkip
    \/ CallToArray
    \/ CallFirst
    \/ CallSum
    \/ Chain
    \/ Drop
    \/ ChangeData
    \/ ChangeArray

SpecWithChanges == Init /\ [][NextWithChanges]_vars

(***************************************************************************)
(* What the claims speak of.                                               *)
(***************************************************************************)
\* A call of method op has just returned.
Returned(op) == pc = "returned" /\ call.op = op

\* The items of the wrapper the call returned.
RetItems == heap[call.ret.collection]

Occurrences(items, v) == Cardinality({i \in 1..Len(items) : items[i] = v})

IsPermutation(a, b) ==
    /\ Len(a) = Len(b)
    /\ \A v \in Range(a) \cup Range(b) : Occurrences(a, v) = Occurrences(b, v)

\* The items at the indices idx of items, in index order.
RECURSIVE AtIndices(_, _)
AtIndices(items, idx) ==
    IF idx = {} THEN << >>
    ELSE LET m == CHOOSE i \in idx : \A j \in idx : j <= i
         IN Append(AtIndices(items, idx \ {m}), items[m])

\* The elements of items whose key under selector is key, in order.
WithKey(items, selector, key) ==
    AtIndices(items, {i \in 1..Len(items) : Selector(selector, items[i]) = key})

Keys(items, selector) == {Selector(selector, items[i]) : i \in 1..Len(items)}

\* Equal-key elements stand in b in the order they have in a.
SameOrderWithinKeys(a, b, selector) ==
    \A key \in Keys(a, selector) \cup Keys(b, selector) :
        WithKey(a, selector, key) = WithKey(b, selector, key)

\* C1: take(count) returns a new wrapper holding the first min(count, length)
\* elements in original order, and an empty one for every count <= 0; no
\* count raises an error.
C1_TakeClampsCount ==
    Returned("take") =>
        /\ call.ret.t = "Queryable"
        /\ RetItems = SubSeq(call.in, 1, Min(Max(call.args.count, 0), Len(call.in)))

\* C2: skip(count) returns the elements after the first count in original
\* order: none when count >= length, all of them for every count <= 0.
C2_SkipClampsCount ==
    Returned("skip") =>
        /\ call.ret.t = "Queryable"
        /\ RetItems = SubSeq(call.in, Min(Max(call.args.count, 0), Len(call.in)) + 1,
                             Len(call.in))

\* C3: no call of a method changes the elements, their order or the length
\* of any wrapper that exists when it is made (the receiver included), nor
\* which array a wrapper holds.
C3_CallsLeaveWrappersUnchanged ==
    [][(pc = "ready" /\ pc' = "returned") =>
          /\ queryable' = queryable
          /\ \A q \in DOMAIN queryable :
                /\ queryable[q].collection \in DOMAIN heap'
                /\ heap'[queryable[q].collection] = heap[queryable[q].collection]]_vars

\* orderBy returned an order other than the receiver's, and the receiver has
\* the items it had.
C3_Witness ==
    /\ Returned("orderBy")
    /\ RetItems # call.in
    /\ heap[call.this.collection] = call.in

\* C4: orderBy returns a permutation of the source with non-decreasing keys
\* in which elements of equal key keep their relative order.
C4_OrderByStableAscending ==
    Returned("orderBy") =>
        /\ call.ret.t = "Queryable"
        /\ IsPermutation(RetItems, call.in)
        /\ \A i \in 1..Len(RetItems), j \in 1..Len(RetItems) :
              i < j => ~Less(Selector(call.args.selector, RetItems[j]),
                             Selector(call.args.selector, RetItems[i]))
        /\ SameOrderWithinKeys(call.in, RetItems, call.args.selector)

\* What orderBy returns for a receiver of the given items.
OrderByOf(items, keySelector) ==
    LET r == orderBy(1 :> items, Queryable(1), keySelector)
    IN r.heap[r.ret.collection]

\* C5: orderByDescending returns a permutation of the source with
\* non-increasing keys in which elements of equal key keep their relative
\* order; hence its result differs from the reverse of orderBy's result
\* whenever two elements share a key.
C5_OrderByDescendingStable ==
    Returned("orderByDescending") =>
        /\ call.ret.t = "Queryable"
        /\ IsPermutation(RetItems, call.in)
        /\ \A i \in 1..Len(RetItems), j \in 1..Len(RetItems) :
              i < j => ~Less(Selector(call.args.selector, RetItems[i]),
                             Selector(call.args.selector, RetItems[j]))
        /\ SameOrderWithinKeys(call.in, RetItems, call.args.selector)
        /\ (\E i \in 1..Len(call.in), j \in 1..Len(call.in) :
               /\ i < j
               /\ Selector(call.args.selector, call.in[i])
                     = Selector(call.args.selector, call.in[j]))
             => RetItems # ArrayReverse(OrderByOf(call.in, call.args.selector))

\* The elements of all groups, one group after another.
RECURSIVE ConcatGroups(_, _)
ConcatGroups(own, keys) ==
    IF keys = {} THEN << >>
    ELSE LET k == CHOOSE x \in keys : TRUE
         IN own[k] \o ConcatGroups(own, keys \ {k})

\* C6: groupBy returns a mapping in which every source element is in the
\* group stored under its extracted key and in no other, each group lists
\* its elements in source order, and all groups together are a permutation
\* of the source.
C6_GroupByPartitions ==
    Returned("groupBy") =>
        /\ call.ret.t = "groups"
        /\ \A k \in DOMAIN call.ret.own :
              call.ret.own[k] =
                  AtIndices(call.in,
                            {i \in 1..Len(call.in) :
                                ToPropertyKey(Selector(call.args.selector, call.in[i])) = k})
        /\ \A i \in 1..Len(call.in) :
              ToPropertyKey(Selector(call.args.selector, call.in[i])) \in DOMAIN call.ret.own
        /\ IsPermutation(ConcatGroups(call.ret.own, DOMAIN call.ret.own), call.in)

\* The key distinct gives an element.
DistinctKey(item, keySelector) ==
    IF keySelector = "omitted" THEN item ELSE Selector(keySelector, item)

\* C7: distinct returns exactly the elements whose key occurs at no earlier
\* index, in original order: the keys of the result are pairwise distinct,
\* every key of the source occurs in the result, and the element kept for a
\* key is its first occurrence.
C7_DistinctKeepsFirstOccurrences ==
    Returned("distinct") =>
        LET sel == call.args.selector
            firsts == {i \in 1..Len(call.in) :
                          \A j \in 1..(i - 1) :
                              DistinctKey(call.in[j], sel) # DistinctKey(call.in[i], sel)}
        IN /\ call.ret.t = "Queryable"
           /\ RetItems = AtIndices(call.in, firsts)
           /\ \A i \in 1..Len(RetItems), j \in 1..Len(RetItems) :
                 i # j => DistinctKey(RetItems[i], sel) # DistinctKey(RetItems[j], sel)
           /\ \A i \in 1..Len(call.in) :
                 \E j \in 1..Len(RetItems) :
                     DistinctKey(RetItems[j], sel) = DistinctKey(call.in[i], sel)

\* distinct dropped a later element whose key an earlier one has.
C7_Witness ==
    /\ Returned("distinct")
    /\ call.args.selector # "omitted"
    /\ Len(call.in) = MaxLen
    /\ Len(RetItems) < Len(call.in)
    /\ call.in[1] # call.in[Len(call.in)]
    /\ RetItems[1] = call.in[1]

\* The indices of items the search of first/last accepts.
Matches(items, predicate) ==
    {i \in 1..Len(items) : predicate = "omitted" \/ Predicate(predicate, items[i])}

\* C8: first returns the element at the smallest index that satisfies the
\* predicate (index 0 without one), last the element at the greatest; the
\* not-found value undefined is returned, without a throw, exactly when no
\* element satisfies the search.
C8_FirstLastFoundOrSentinel ==
    (Returned("first") \/ Returned("last")) =>
        LET found == Matches(call.in, call.args.predicate)
        IN /\ found # {} =>
                 call.ret = call.in[CHOOSE i \in found :
                                       \A j \in found :
                                           IF call.op = "first" THEN i <= j ELSE j <= i]
           /\ call.ret = Undefined <=> found = {}

\* What first / last return for a receiver of the given items.
FirstOf(items, predicate) == first(1 :> items, Queryable(1), predicate).ret
LastOf(items, predicate) == last(1 :> items, Queryable(1), predicate).ret

\* C9: firstOrDefault returns the element first finds whenever some element
\* satisfies the search, and the default itself only when none does;
\* lastOrDefault likewise with last; neither throws.
C9_OrDefaultFallsBackOnlyWhenNoMatch ==
    (Returned("firstOrDefault") \/ Returned("lastOrDefault")) =>
        LET found == Matches(call.in, call.args.predicate)
        IN IF found # {}
           THEN call.ret = IF call.op = "firstOrDefault"
                           THEN FirstOf(call.in, call.args.predicate)
                           ELSE LastOf(call.in, call.args.predicate)
           ELSE call.ret = call.args.defaultValue

\* C10: where returns exactly the elements that satisfy the predicate, in
\* their original relative order; with the always-true predicate the result
\* has the content and the length of the source.
C10_WhereKeepsMatchesInOrder ==
    Returned("where") =>
        /\ call.ret.t = "Queryable"
        /\ RetItems = AtIndices(call.in,
                                {i \in 1..Len(call.in) :
                                    Predicate(call.args.predicate, call.in[i])})
        /\ call.args.predicate = "true" => RetItems = call.in

\* where kept the last element of the receiver and dropped an earlier one.
C10_Witness ==
    /\ Returned("where")
    /\ Len(call.in) = MaxLen
    /\ Len(RetItems) < Len(call.in)
    /\ RetItems # << >>
    /\ RetItems[Len(RetItems)] = call.in[Len(call.in)]

\* C11: select yields a wrapper of the length of its input whose element i
\* is the selector applied to input element i; where, distinct, take and
\* skip, whatever their argument, never yield a wrapper longer than their
\* input; so no wrapper a chain arrives at is longer than the source.
C11_LengthAlongChains ==
    /\ Returned("select") =>
          /\ call.ret.t = "Queryable"
          /\ Len(RetItems) = Len(call.in)
          /\ \A i \in 1..Len(call.in) :
                RetItems[i] = Selector(call.args.selector, call.in[i])
    /\ (Returned("where") \/ Returned("distinct") \/ Returned("take") \/ Returned("skip")) =>
          /\ call.ret.t = "Queryable"
          /\ Len(RetItems) <= Len(call.in)
    /\ \A q \in DOMAIN queryable :
          Len(heap[queryable[q].collection]) <= Len(heap[queryable[1].collection])
    /\ (pc = "returned" /\ call.ret.t = "Queryable") =>
          Len(RetItems) <= Len(heap[queryable[1].collection])

\* On a wrapper a chain arrived at, take with a count beyond the length
\* returned all elements, all of them projections of select.
C11_Witness ==
    /\ Returned("take")
    /\ Len(queryable) > 1
    /\ call.this = queryable[Len(queryable)]
    /\ call.args.count > Len(call.in)
    /\ Len(call.in) = MaxLen
    /\ RetItems = call.in
    /\ \A i \in 1..Len(call.in) : call.in[i].t = "number"

\* The integer the selector results of the first n items add up to.
RECURSIVE Total(_, _, _)
Total(items, selector, n) ==
    IF n = 0 THEN 0 ELSE Total(items, selector, n - 1) + Selector(selector, items[n]).num

\* C12: sum returns the sum of the selector results, 0 for the empty
\* sequence; average returns that sum divided by the length for a non-empty
\* sequence, and for the empty one no ordinary number (not 0) but the result
\* of 0 / 0, NaN.
C12_SumAndAverage ==
    /\ Returned("sum") =>
          call.ret = Num(Total(call.in, call.args.selector, Len(call.in)))
    /\ Returned("average") =>
          IF call.in # << >>
          THEN /\ call.ret.t = "number"
               /\ ~call.ret.nan
               /\ call.ret.den > 0
               /\ call.ret.num * Len(call.in)
                     = Total(call.in, call.args.selector, Len(call.in)) * call.ret.den
          ELSE /\ call.ret = NaN
               /\ call.ret # Num(0)

\* average was called on an empty collection and returned NaN.
C12_Witness ==
    /\ Returned("average")
    /\ call.in = << >>
    /\ call.ret.nan

\* average returned a number that is no integer.
C12_WitnessFraction ==
    /\ Returned("average")
    /\ call.ret.den > 1

\* C13: every operator is total: whatever the sequence and the callbacks
\* (none of which throws), groupBy key selectors returning any string or
\* number included, the call returns a result and raises no error.
C13_NoCallThrows == pc = "returned" => call.ret.t # "throw"

TransformingOperators ==
    {"select", "where", "orderBy", "orderByDescending", "distinct", "take", "skip"}

\* The step changed the items of the array wrapper q is over.
ItemsChanged(q) == heap'[queryable[q].collection] # heap[queryable[q].collection]

\* C14: select, where, orderBy, orderByDescending, distinct, take and skip
\* return a wrapper over a newly allocated array, none that the receiver or
\* any wrapper the caller holds is over, also when the result has the items
\* of the source; so the source and the wrapper chained to never share an
\* array, and an in-place change of the array of one of them (the source's
\* `data`, or what toArray() returned for either) leaves the items of the
\* other as they were.
C14_ResultsAreFreshArrays ==
    /\ [](pc = "returned" /\ call.op \in TransformingOperators =>
            /\ call.ret.t = "Queryable"
            /\ call.ret.collection # call.this.collection
            /\ \A q \in DOMAIN queryable : call.ret.collection # queryable[q].collection
            /\ call.in = heap[call.this.collection])
    /\ [](Len(queryable) = 2 => queryable[1].collection # queryable[2].collection)
    /\ [][(Len(queryable) = 2 /\ heap' # heap /\ UNCHANGED <<queryable, pc, call>>) =>
            /\ ItemsChanged(1) # ItemsChanged(2)
            /\ (pc = "returned" /\ call.this = queryable[2]) => ~ItemsChanged(1)
            /\ (pc = "ready" \/ call.this = queryable[1]) => ~ItemsChanged(2)]_vars

\* The wrapper chained to had the items of the source; the caller changed
\* the array its toArray() returned, and the source has the items it had.
C14_Witness ==
    /\ Returned("toArray")
    /\ Len(queryable) = 2
    /\ call.this = queryable[2]
    /\ call.in # << >>
    /\ call.in = heap[queryable[1].collection]
    /\ heap[call.ret.ref] # call.in
    /\ heap[call.ret.ref][1] = Jack

\* The other way round: the caller changed the array the source's toArray()
\* returned, and the wrapper chained to has the items it had, those the
\* source had before.
C14_WitnessSource ==
    /\ Returned("toArray")
    /\ Len(queryable) = 2
    /\ call.this = queryable[1]
    /\ call.in = heap[queryable[2].collection]
    /\ heap[call.ret.ref] # call.in
    /\ heap[call.ret.ref][1] = Jack

\* C15: the source wrapper is over `data` itself, the array the constructor
\* was given; toArray() returns the array the receiver is over, so the same
\* array at every call, and allocates none; and every other call reads the
\* items that array has when the call is made, the caller's in-place writes
\* to `data` or to a toArray() result included: first() returns its first
\* element as it is now, sum its present total.
C15_ToArrayIsTheLiveArray ==
    /\ queryable[1] = Queryable(DataRef)
    /\ Returned("toArray") =>
          /\ call.ret = [t |-> "array", ref |-> call.this.collection]
          /\ call.ret.ref \in {queryable[q].collection : q \in DOMAIN queryable}
          /\ call.this = queryable[1] => call.ret.ref = DataRef
          /\ DOMAIN heap = {queryable[q].collection : q \in DOMAIN queryable}
    /\ (pc = "returned" /\ call.op # "toArray") =>
          call.in = heap[call.this.collection]
    /\ (Returned("first") /\ call.args.predicate = Omitted
            /\ heap[call.this.collection] # << >>) =>
          call.ret = heap[call.this.collection][1]
    /\ Returned("sum") =>
          call.ret = Num(Total(heap[call.this.collection], call.args.selector,
                               Len(heap[call.this.collection])))

\* The caller wrote jack to data[0], or to element 0 of what toArray()
\* returned for the source, and a later first() on the source returned jack.
C15_Witness ==
    /\ Returned("first")
    /\ call.this = queryable[1]
    /\ call.args.predicate = Omitted
    /\ call.ret = Jack

\* The same for a wrapper chained to: its toArray() result was written to,
\* and its sum counts jack, whom the source does not hold.
C15_WitnessChained ==
    /\ Returned("sum")
    /\ Len(queryable) = 2
    /\ call.this = queryable[2]
    /\ Jack \in Range(call.in)
    /\ Jack \notin Range(heap[DataRef])
    /\ call.args.selector = "age"

====
